---- MODULE Spec2Model ----
(***************************************************************************)
(* slack2discord: the import pipeline of src/slack2discord.py.             *)
(*                                                                         *)
(* Text is a sequence of one-character strings.  A Python dict is a        *)
(* sequence of <<key, value>> pairs in insertion order.  None is the       *)
(* record [none |-> TRUE]; a returned dict d is [none |-> FALSE, items |-> d]. *)
(* A function that may raise returns [exc |-> TRUE] or                     *)
(* [exc |-> FALSE, val |-> v].                                             *)
(***************************************************************************)
EXTENDS Integers, Sequences, FiniteSets, TLC

(* ------------------------------ bounds --------------------------------- *)

\* largest number of path arguments of one import_here invocation
MaxPaths == 2

\* largest number of message records in one export file
MaxMsgs == 3

(* ------------------------------ text ----------------------------------- *)

\* characters in code point order (str comparison of sorted())
Alphabet ==
  <<"\n", " ", "#", "*", ".", "/", "0", "1", "2", "3", "4", "5", "6", "7",
    "8", "9", ":", "<", ">", "@", "A", "B", "C", "U", "a", "b", "c", "d",
    "e", "f", "g", "h", "i", "j", "l", "m", "n", "o", "p", "r", "s", "t",
    "u", "x">>

Code(c) == CHOOSE i \in 1..Len(Alphabet) : Alphabet[i] = c

\* Below, CHOOSE r \in {e : v \in {x}} : TRUE is e with v standing for the
\* value of x, evaluated once as Python evaluates the right side of an
\* assignment once.

MinOf(S) == CHOOSE x \in S : \A y \in S : x <= y

\* a < b for str
StrLess(a, b) ==
  LET D == {i \in 1..(IF Len(a) < Len(b) THEN Len(a) ELSE Len(b)) : a[i] # b[i]}
  IN  IF D = {} THEN Len(a) < Len(b)
      ELSE Code(a[MinOf(D)]) < Code(b[MinOf(D)])

\* s.endswith(suffix)
EndsWith(s, suffix) ==
  /\ Len(suffix) <= Len(s)
  /\ SubSeq(s, Len(s) - Len(suffix) + 1, Len(s)) = suffix

\* the start positions of old in s
Matches(s, old) ==
  {i \in 1..(Len(s) - Len(old) + 1) : SubSeq(s, i, i + Len(old) - 1) = old}

\* sub in s
Contains(s, sub) == Matches(s, sub) # {}

\* s from position from on, the occurrences of old at the positions M
\* from there on replaced by new, leftmost first and non-overlapping
RECURSIVE ReplaceFrom(_, _, _, _, _)
ReplaceFrom(s, M, old, new, from) ==
  IF \A i \in M : i < from THEN SubSeq(s, from, Len(s))
  ELSE CHOOSE r \in {SubSeq(s, from, at - 1) \o new
                        \o ReplaceFrom(s, M, old, new, at + Len(old)) :
                      at \in {MinOf({i \in M : i >= from})}} : TRUE

\* s.replace(old, new): leftmost non-overlapping occurrences
Replace(s, old, new) ==
  CHOOSE r \in {ReplaceFrom(str, M, old, new, 1) :
                  str \in {s}, M \in {Matches(s, old)}} : TRUE

\* s[:limit], a negative limit counting from the end
SliceTo(str, limit) ==
  CHOOSE r \in
    {IF limit >= 0
     THEN SubSeq(s, 1, IF limit < Len(s) THEN limit ELSE Len(s))
     ELSE SubSeq(s, 1, IF Len(s) + limit > 0 THEN Len(s) + limit ELSE 0) :
       s \in {str}} : TRUE

\* s.strip('\n')
StripNewlines(str) ==
  CHOOSE r \in
    {IF \A i \in 1..Len(s) : s[i] = "\n" THEN <<>>
     ELSE SubSeq(s,
                 CHOOSE i \in 1..Len(s) :
                   s[i] # "\n" /\ \A j \in 1..(i - 1) : s[j] = "\n",
                 CHOOSE i \in 1..Len(s) :
                   s[i] # "\n" /\ \A j \in (i + 1)..Len(s) : s[j] = "\n") :
       s \in {str}} : TRUE

\* sep.join(parts)
RECURSIVE Join(_, _)
Join(sep, parts) ==
  IF parts = <<>> THEN <<>>
  ELSE IF Len(parts) = 1 THEN parts[1]
  ELSE parts[1] \o sep \o Join(sep, Tail(parts))

\* n copies of the character c
Rep(c, n) == [i \in 1..n |-> c]

None == [none |-> TRUE]
Some(d) == [none |-> FALSE, items |-> d]
Raise == [exc |-> TRUE]
Return(v) == [exc |-> FALSE, val |-> v]

\* dict: key in d, d[key], d[key] = value
HasKey(d, k) == \E i \in 1..Len(d) : d[i][1] = k
Lookup(d, k) == d[CHOOSE i \in 1..Len(d) : d[i][1] = k][2]
Store(d, k, v) ==
  IF HasKey(d, k)
  THEN [i \in 1..Len(d) |-> IF d[i][1] = k THEN <<k, v>> ELSE d[i]]
  ELSE Append(d, <<k, v>>)

(* ------------------------- the file system ----------------------------- *)

DotJson == <<".", "j", "s", "o", "n">>
NameA == <<"a">> \o DotJson
NameB == <<"b">> \o DotJson
NameTxt == <<"n", ".", "t", "x", "t">>

\* path arguments: a directory of two export files and a text file, a
\* directory without export files, one export file
PathExp == <<"e", "x", "p">>
PathNil == <<"n", "i", "l">>
PathOne == <<"c">> \o DotJson
PathUniverse == {PathExp, PathNil, PathOne}

\* os.path.isdir(file_path)
IsDir(file_path) == file_path \in {PathExp, PathNil}

DirEntries(file_path) ==
  IF file_path = PathExp THEN {NameA, NameB, NameTxt}
  ELSE IF file_path = PathNil THEN {NameTxt}
  ELSE {}

\* os.listdir(file_path): the entries in an arbitrary order
Listings(file_path) ==
  LET E == DirEntries(file_path)
  IN  {l \in [1..Cardinality(E) -> E] :
         \A i, j \in 1..Cardinality(E) : l[i] = l[j] => i = j}

\* os.path.join(a, b)
PathJoin(a, b) == a \o <<"/">> \o b

IsJson(f) == EndsWith(f, DotJson)

\* the listing without the endswith('.json') filter
get_file_paths_unfiltered(file_path, listing) ==
  IF IsDir(file_path)
  THEN [i \in 1..Len(listing) |-> PathJoin(file_path, listing[i])]
  ELSE IF EndsWith(file_path, DotJson) THEN <<file_path>>
  ELSE <<>>

get_file_paths(file_path, listing) ==
  IF IsDir(file_path)
  THEN LET js == SelectSeq(listing, IsJson)
       IN  [i \in 1..Len(js) |-> PathJoin(file_path, js[i])]
  ELSE IF EndsWith(file_path, DotJson) THEN <<file_path>>
  ELSE <<>>

\* sorted(paths): ascending by str comparison
RECURSIVE Insert(_, _)
Insert(sortedSeq, x) ==
  IF sortedSeq = <<>> THEN <<x>>
  ELSE IF StrLess(x, Head(sortedSeq)) THEN <<x>> \o sortedSeq
  ELSE <<Head(sortedSeq)>> \o Insert(Tail(sortedSeq), x)

RECURSIVE Sorted(_)
Sorted(list) ==
  IF list = <<>> THEN <<>>
  ELSE Insert(Sorted(SubSeq(list, 1, Len(list) - 1)), list[Len(list)])

(* ------------------------- identity resolver --------------------------- *)

U1 == <<"U", "1">>
U9 == <<"U", "9">>
C1 == <<"C", "1">>
NameAl == <<"A", "l">>
NameBo == <<"B", "o">>
NameDev == <<"d", "e", "v">>

\* a lookup file as found on disk: absent, not JSON, or a JSON array
Absent == [kind |-> "absent"]
Garbage == [kind |-> "garbage"]
Array(entries) == [kind |-> "array", entries |-> entries]

UserAl == [id |-> U1, profile |-> [display_name |-> NameAl, real_name |-> NameBo]]
UserBo == [id |-> U1, profile |-> [display_name |-> <<>>, real_name |-> NameBo]]
UserBad == [id |-> U9]
UsersFiles ==
  {Absent, Garbage, Array(<<UserBo, UserAl>>), Array(<<UserAl, UserBad>>)}

ChannelDev == [id |-> C1, name |-> NameDev]
ChannelBad == [name |-> NameDev]
ChannelsFiles ==
  {Absent, Garbage, Array(<<ChannelDev>>), Array(<<ChannelDev, ChannelBad>>)}

\* the file the two os.path.isfile tests select: next to the first export
\* file, else in the parent directory
FirstFound(inDir, inParent) == IF inDir # Absent THEN inDir ELSE inParent

\* the fallback left out: users[user['id']] = user['profile']['display_name']
RECURSIVE LoadUsersNoFallback(_, _)
LoadUsersNoFallback(users_json, users) ==
  IF users_json = <<>> THEN Return(users)
  ELSE LET user == Head(users_json)
       IN  IF \/ "id" \notin DOMAIN user
              \/ "profile" \notin DOMAIN user
              \/ "display_name" \notin DOMAIN user.profile
           THEN Raise
           ELSE LoadUsersNoFallback(Tail(users_json),
                                    Store(users, user.id,
                                          user.profile.display_name))

RECURSIVE LoadUsers(_, _)
LoadUsers(users_json, users) ==
  IF users_json = <<>> THEN Return(users)
  ELSE LET user == Head(users_json)
       IN  IF \/ "id" \notin DOMAIN user
              \/ "profile" \notin DOMAIN user
              \/ "display_name" \notin DOMAIN user.profile
              \/ /\ user.profile.display_name = <<>>
                 /\ "real_name" \notin DOMAIN user.profile
           THEN Raise
           ELSE LoadUsers(Tail(users_json),
                          Store(users, user.id,
                                IF user.profile.display_name # <<>>
                                THEN user.profile.display_name
                                ELSE user.profile.real_name))

\* the except branch returning users: the entries read before the failure
RECURSIVE LoadUsersPartial(_, _)
LoadUsersPartial(users_json, users) ==
  IF users_json = <<>> THEN users
  ELSE IF LoadUsers(<<Head(users_json)>>, users).exc THEN users
  ELSE LoadUsersPartial(Tail(users_json),
                        LoadUsers(<<Head(users_json)>>, users).val)

get_display_names_partial(inDir, inParent) ==
  LET found == FirstFound(inDir, inParent)
  IN  IF found = Absent THEN None
      ELSE IF found = Garbage THEN Some(<<>>)
      ELSE Some(LoadUsersPartial(found.entries, <<>>))

get_display_names(inDir, inParent) ==
  LET found == FirstFound(inDir, inParent)
  IN  IF found = Absent THEN None
      ELSE IF found = Garbage THEN None
      ELSE LET r == LoadUsers(found.entries, <<>>)
           IN  IF r.exc THEN None ELSE Some(r.val)

RECURSIVE LoadChannels(_, _)
LoadChannels(channels_json, channels) ==
  IF channels_json = <<>> THEN Return(channels)
  ELSE LET channel == Head(channels_json)
       IN  IF "id" \notin DOMAIN channel \/ "name" \notin DOMAIN channel
           THEN Raise
           ELSE LoadChannels(Tail(channels_json),
                             Store(channels, channel.id, channel.name))

get_channel_names(inDir, inParent) ==
  LET found == FirstFound(inDir, inParent)
  IN  IF found = Absent THEN None
      ELSE IF found = Garbage THEN None
      ELSE LET r == LoadChannels(found.entries, <<>>)
           IN  IF r.exc THEN None ELSE Some(r.val)

(* ------------------------- message transformer ------------------------- *)

MAX_MESSAGE_SIZE == 2000 - 60

\* the pattern is the bare identifier: message.replace(uid, f'@{name}')
RECURSIVE SubstituteBareIds(_, _)
SubstituteBareIds(message, users) ==
  IF users = <<>> THEN message
  ELSE SubstituteBareIds(
         Replace(message, users[1][1], <<"@">> \o users[1][2]),
         Tail(users))

RECURSIVE SubstituteUsers(_, _)
SubstituteUsers(message, users) ==
  IF users = <<>> THEN message
  ELSE SubstituteUsers(
         Replace(message, <<"<", "@">> \o users[1][1] \o <<">">>,
                 <<"@">> \o users[1][2]),
         Tail(users))

RECURSIVE SubstituteChannels(_, _)
SubstituteChannels(message, channels) ==
  IF channels = <<>> THEN message
  ELSE SubstituteChannels(
         Replace(message, <<"<", "#">> \o channels[1][1] \o <<">">>,
                 <<"#">> \o channels[1][2]),
         Tail(channels))

\* lines 122-125: the two substitution loops, users first
Substitute(message, users, channels) ==
  SubstituteChannels(SubstituteUsers(message, users), channels)

\* files_msg after the loop over files (every file_url a str)
RECURSIVE FilesMsg(_, _)
FilesMsg(files_msg, files) ==
  IF files = <<>> THEN files_msg
  ELSE FilesMsg(Join(<<"\n">>, <<files_msg, files[1].items>>), Tail(files))

\* users and channels are None or Some(dict); every element of files is None
\* (a descriptor without url_private) or Some(url)
fill_references(message, users, channels, files) ==
  IF users.none \/ channels.none THEN Raise
  ELSE IF \E i \in 1..Len(files) : files[i].none THEN Raise
  ELSE CHOOSE r \in
         {LET substituted == Substitute(message, users.items, channels.items)
              limit == MAX_MESSAGE_SIZE - Len(files_msg)
          IN  Return(StripNewlines(
                Join(<<"\n">>, <<SliceTo(substituted, limit), files_msg>>))) :
            files_msg \in {FilesMsg(<<>>, files)}} : TRUE

(* ------------------------- message records ----------------------------- *)

TsNewYear == <<"1", "6", "0", "9", "4", "5", "9", "2", "0", "0">>
TsEarly == <<"8", "6", "3", "9", "9", ".", "5">>
TextMention == <<"h", "i", " ", "<", "@", "U", "1", ">">>
TextChannel == <<"<", "#", "C", "1", ">">>
Url == <<"u">>

FileDoc == [url_private |-> Url, name |-> <<"f">>, mimetype |-> <<"p", "d", "f">>]
FileImage ==
  [url_private |-> Url, name |-> <<"i">>,
   mimetype |-> <<"i", "m", "a", "g", "e", "/", "p", "n", "g">>]
FileNoMime == [url_private |-> Url, name |-> <<"f">>]

MsgProfile ==
  [ts |-> TsNewYear, text |-> TextMention,
   user_profile |-> [display_name |-> NameAl, real_name |-> <<>>]]
MsgReal ==
  [ts |-> TsEarly, text |-> TextChannel,
   user_profile |-> [display_name |-> <<>>, real_name |-> NameBo],
   files |-> <<FileDoc>>]
MsgUser ==
  [ts |-> TsNewYear, text |-> TextMention, user |-> U1,
   files |-> <<FileDoc, FileImage>>]
MsgUnknown == [ts |-> TsEarly, text |-> TextMention, user |-> U9]
MsgNoText == [ts |-> TsNewYear, user |-> U1]
MsgNoTs == [text |-> TextMention, user_profile |-> [display_name |-> NameAl]]
MsgNoAuthor == [ts |-> TsNewYear, text |-> TextMention]
MsgNoMime ==
  [ts |-> TsNewYear, text |-> TextChannel,
   user_profile |-> [display_name |-> NameAl, real_name |-> <<>>],
   files |-> <<FileNoMime, FileDoc>>]

Records ==
  {MsgProfile, MsgReal, MsgUser, MsgUnknown, MsgNoText, MsgNoTs, MsgNoAuthor,
   MsgNoMime}

(* ------------------------- timestamp ----------------------------------- *)

Digits == <<"0", "1", "2", "3", "4", "5", "6", "7", "8", "9">>
IsDigit(c) == \E i \in 1..10 : Digits[i] = c
DigitVal(c) == (CHOOSE i \in 1..10 : Digits[i] = c) - 1

RECURSIVE DecimalValue(_, _)
DecimalValue(s, acc) ==
  IF s = <<>> THEN acc ELSE DecimalValue(Tail(s), acc * 10 + DigitVal(Head(s)))

\* float(ts) for a decimal numeral, cut to whole seconds as strftime shows it
ParseSeconds(ts) ==
  LET dots == {i \in 1..Len(ts) : ts[i] = "."}
      whole == IF dots = {} THEN ts ELSE SubSeq(ts, 1, MinOf(dots) - 1)
  IN  IF \/ Cardinality(dots) > 1
         \/ Len(ts) - Cardinality(dots) = 0
         \/ \E i \in 1..Len(ts) : ts[i] # "." /\ ~IsDigit(ts[i])
      THEN Raise
      ELSE Return(DecimalValue(whole, 0))

Pad2(n) == <<Digits[((n \div 10) % 10) + 1], Digits[(n % 10) + 1]>>
Pad4(n) == Pad2(n \div 100) \o Pad2(n % 100)

\* datetime.fromtimestamp(secs).strftime('%m/%d/%Y at %H:%M:%S'), local
\* time being UTC: the civil date of the day number, then the time of day
FormatTimestamp(secs) ==
  LET z == secs \div 86400 + 719468
      era == z \div 146097
      doe == z - era * 146097
      yoe == (doe - doe \div 1460 + doe \div 36524 - doe \div 146096) \div 365
      doy == doe - (365 * yoe + yoe \div 4 - yoe \div 100)
      mp == (5 * doy + 2) \div 153
      d == doy - (153 * mp + 2) \div 5 + 1
      m == IF mp < 10 THEN mp + 3 ELSE mp - 9
      y == yoe + era * 400 + (IF m <= 2 THEN 1 ELSE 0)
      tod == secs % 86400
  IN  Pad2(m) \o <<"/">> \o Pad2(d) \o <<"/">> \o Pad4(y)
        \o <<" ", "a", "t", " ">>
        \o Pad2(tod \div 3600) \o <<":">> \o Pad2((tod \div 60) % 60)
        \o <<":">> \o Pad2(tod % 60)

(* ------------------------- one message --------------------------------- *)

\* the test without its any(...) half: an author is not required
ValidWithoutAuthor(message) == {"ts", "text"} \subseteq DOMAIN message

\* line 193: the record has ts and text and names an author
Valid(message) ==
  /\ {"ts", "text"} \subseteq DOMAIN message
  /\ {"user_profile", "user"} \cap DOMAIN message # {}

\* users.get(message['user'], message['user']): an unknown identifier is
\* shown as it is
UsernameOrIdentifier(message, users) ==
  IF "user_profile" \in DOMAIN message
  THEN IF message.user_profile.display_name # <<>>
       THEN Return(message.user_profile.display_name)
       ELSE Return(message.user_profile.real_name)
  ELSE IF "user" \notin DOMAIN message THEN Raise
  ELSE IF users.none THEN Return(message.user)
  ELSE IF ~HasKey(users.items, message.user) THEN Return(message.user)
  ELSE Return(Lookup(users.items, message.user))

\* lines 194-200
Username(message, users) ==
  IF "user_profile" \in DOMAIN message
  THEN IF "display_name" \notin DOMAIN message.user_profile THEN Raise
       ELSE IF message.user_profile.display_name # <<>>
       THEN Return(message.user_profile.display_name)
       ELSE IF "real_name" \notin DOMAIN message.user_profile THEN Raise
       ELSE Return(message.user_profile.real_name)
  ELSE IF "user" \notin DOMAIN message THEN Raise
  ELSE IF users.none THEN Raise
  ELSE IF ~HasKey(users.items, message.user) THEN Raise
  ELSE Return(Lookup(users.items, message.user))

\* message.get('files', [])
MessageFiles(message) ==
  IF "files" \in DOMAIN message THEN message.files ELSE <<>>

\* [f.get('url_private') for f in message.get('files', [])]
FileUrls(message) ==
  [i \in 1..Len(MessageFiles(message)) |->
     IF "url_private" \in DOMAIN MessageFiles(message)[i]
     THEN Some(MessageFiles(message)[i].url_private)
     ELSE None]

\* lines 194-207: the text handed to ctx.send, or the exception raised
Compose(message, users, channels) ==
  IF "ts" \notin DOMAIN message \/ "text" \notin DOMAIN message THEN Raise
  ELSE IF Username(message, users).exc \/ ParseSeconds(message.ts).exc
  THEN Raise
  ELSE CHOOSE r \in
         {IF text.exc THEN Raise
          ELSE Return(<<"*", "*">> \o username.val
                        \o <<"*", "*", " ", "*", "(">>
                        \o FormatTimestamp(seconds.val)
                        \o <<")", "*", "\n">> \o text.val) :
            username \in {Username(message, users)},
            seconds \in {ParseSeconds(message.ts)},
            text \in {fill_references(message.text, users, channels,
                                      FileUrls(message))}} : TRUE

(* ------------------------- attachment fetcher -------------------------- *)

\* what the network does to one uploadd_file call: session.get returns a
\* status or raises, channel.send returns or raises
FetchOutcomes == {"200", "404", "raise"}
Network == [fetch : FetchOutcomes, send : BOOLEAN]

\* the fetch outside the try: a failing session.get leaves uploadd_file
uploadd_file_unguarded(file_info, net) ==
  IF "mimetype" \notin DOMAIN file_info
  THEN [exc |-> TRUE, fetched |-> FALSE, delivered |-> "nothing", logged |-> FALSE]
  ELSE IF Contains(file_info.mimetype, <<"i", "m", "a", "g", "e">>)
  THEN [exc |-> FALSE, fetched |-> FALSE, delivered |-> "nothing", logged |-> FALSE]
  ELSE IF net.fetch = "raise"
  THEN [exc |-> TRUE, fetched |-> TRUE, delivered |-> "nothing", logged |-> FALSE]
  ELSE IF ~net.send
  THEN [exc |-> FALSE, fetched |-> TRUE, delivered |-> "nothing", logged |-> TRUE]
  ELSE IF net.fetch # "200"
  THEN [exc |-> FALSE, fetched |-> TRUE, delivered |-> "placeholder", logged |-> FALSE]
  ELSE [exc |-> FALSE, fetched |-> TRUE, delivered |-> "file", logged |-> FALSE]

\* the mimetype test left out: every attachment is fetched
uploadd_file_any_type(file_info, net) ==
  IF "mimetype" \notin DOMAIN file_info
  THEN [exc |-> TRUE, fetched |-> FALSE, delivered |-> "nothing", logged |-> FALSE]
  ELSE IF net.fetch = "raise"
  THEN [exc |-> FALSE, fetched |-> TRUE, delivered |-> "nothing", logged |-> TRUE]
  ELSE IF ~net.send
  THEN [exc |-> FALSE, fetched |-> TRUE, delivered |-> "nothing", logged |-> TRUE]
  ELSE IF net.fetch # "200"
  THEN [exc |-> FALSE, fetched |-> TRUE, delivered |-> "placeholder", logged |-> FALSE]
  ELSE [exc |-> FALSE, fetched |-> TRUE, delivered |-> "file", logged |-> FALSE]

\* exc: an exception leaves uploadd_file; fetched: session.get was called;
\* delivered: what reached the channel; logged: the except branch printed
uploadd_file(file_info, net) ==
  IF "mimetype" \notin DOMAIN file_info
  THEN [exc |-> TRUE, fetched |-> FALSE, delivered |-> "nothing", logged |-> FALSE]
  ELSE IF Contains(file_info.mimetype, <<"i", "m", "a", "g", "e">>)
  THEN [exc |-> FALSE, fetched |-> FALSE, delivered |-> "nothing", logged |-> FALSE]
  ELSE IF net.fetch = "raise"
  THEN [exc |-> FALSE, fetched |-> TRUE, delivered |-> "nothing", logged |-> TRUE]
  ELSE IF ~net.send
  THEN [exc |-> FALSE, fetched |-> TRUE, delivered |-> "nothing", logged |-> TRUE]
  ELSE IF net.fetch # "200"
  THEN [exc |-> FALSE, fetched |-> TRUE, delivered |-> "placeholder", logged |-> FALSE]
  ELSE [exc |-> FALSE, fetched |-> TRUE, delivered |-> "file", logged |-> FALSE]

(* ------------------------- import orchestrator ------------------------- *)

VARIABLES
  paths,            \* the path arguments of the import_here invocation
  pc,               \* "path", "file", "msg", "att" or "done"
  pathIdx,          \* the path argument the outer loop is at
  json_file_paths,  \* get_file_paths(path), in discovery order
  users,            \* get_display_names(json_file_paths)
  channels,         \* get_channel_names(json_file_paths)
  fileIdx,          \* position in sorted(json_file_paths)
  nMsgs,            \* len(json.load(f)) of the open export file
  msgIdx,           \* position of message in the loaded array
  message,          \* the record the loop over the array is at
  attIdx,           \* position in message.get('files', [])
  nValid,           \* valid records of the open file met so far
  nSent,            \* records of the open file whose text was sent
  lastFile,         \* the file of the latest text sent for this path argument
  lastSent,         \* the latest text sent for the open file: its position
                    \* and time, and the time of the text sent before it
  fileLog,          \* per export file of this path argument: how it ended
  lastAtt,          \* how the latest uploadd_file call for the message ended
  warnings,         \* '[WARNING] ... missing' lines printed for the open file
  sleeps,           \* milliseconds slept for the open file
  nResolved,        \* calls of get_display_names / get_channel_names
  render            \* a fill_references call: its arguments and its result

vars ==
  <<paths, pc, pathIdx, json_file_paths, users, channels, fileIdx,
    nMsgs, msgIdx, message, attIdx, nValid, nSent, lastFile, lastSent,
    fileLog, lastAtt, warnings, sleeps, nResolved, render>>

THROTTLE_TIME_MS == 100

NoMessage == [end |-> TRUE]
NoFile == <<>>
NoSend == [msg |-> 0, ts |-> 0, before |-> 0]
NoAtt == [status |-> "none", delivered |-> "nothing", logged |-> FALSE]
NoRender == [called |-> FALSE]

PathArgs == UNION {[1..n -> PathUniverse] : n \in 0..MaxPaths}

Init ==
  /\ paths \in PathArgs
  /\ pc = "path"
  /\ pathIdx = 1
  /\ json_file_paths = <<>>
  /\ users = None
  /\ channels = None
  /\ fileIdx = 1
  /\ nMsgs = 0
  /\ msgIdx = 1
  /\ message = NoMessage
  /\ attIdx = 1
  /\ nValid = 0
  /\ nSent = 0
  /\ lastFile = NoFile
  /\ lastSent = NoSend
  /\ fileLog = <<>>
  /\ lastAtt = NoAtt
  /\ warnings = 0
  /\ sleeps = 0
  /\ nResolved = 0
  /\ render = NoRender

\* the files in discovery order, as the loop would visit them without sorted()
ListingOrder(file_paths) == file_paths

\* line 188: the files in the order the loop visits them
SortedPaths(file_paths) == Sorted(file_paths)

json_file == SortedPaths(json_file_paths)[fileIdx]

\* line 168: what get_file_paths can return for a path, the directory being
\* listed in any order
Located(path) == {get_file_paths(path, listing) : listing \in Listings(path)}

\* line 192: the loop over the loaded array of n records moves to record idx
NextRecord(idx, n) ==
  /\ msgIdx' = idx
  /\ message' \in (IF idx <= n THEN Records ELSE {NoMessage})

\* lines 191-192: the loop variables for a loaded array of n records
LoadArray(n) ==
  /\ nMsgs' = n
  /\ NextRecord(1, n)
  /\ nValid' = 0
  /\ nSent' = 0
  /\ lastSent' = NoSend
  /\ warnings' = 0
  /\ sleeps' = 0

\* the handler around the loop over the files: one failure ends the path
FileFailsEndsPath(cause) ==
  /\ fileLog' = Append(fileLog, cause)
  /\ fileIdx' = Len(json_file_paths) + 1
  /\ lastAtt' = NoAtt
  /\ pc' = "file"

\* no handler: the exception leaves import_here
FileFailsUncaught(cause) ==
  /\ fileLog' = Append(fileLog, cause)
  /\ fileIdx' = fileIdx
  /\ lastAtt' = NoAtt
  /\ pc' = "crashed"

\* lines 217-218: the exception reaches the file-level handler, which prints
\* it; the loop over the files goes on
FileFails(cause) ==
  /\ fileLog' = Append(fileLog, cause)
  /\ fileIdx' = fileIdx + 1
  /\ lastAtt' = NoAtt
  /\ pc' = "file"

\* lines 165-171: a path without .json files
LocateEmpty ==
  /\ pc = "path"
  /\ pathIdx <= Len(paths)
  /\ <<>> \in Located(paths[pathIdx])
  /\ pathIdx' = pathIdx + 1
  /\ UNCHANGED <<paths, pc, json_file_paths, users, channels, fileIdx, nMsgs,
                 msgIdx, message, attIdx, nValid, nSent, lastFile, lastSent,
                 fileLog, lastAtt, warnings, sleeps, nResolved, render>>

\* lines 165-186: a path with .json files; both lookup tables are resolved
LocateFiles ==
  /\ pc = "path"
  /\ pathIdx <= Len(paths)
  /\ json_file_paths' \in Located(paths[pathIdx]) \ {<<>>}
  /\ users' \in {get_display_names(inDir, inParent) :
                   inDir \in UsersFiles, inParent \in UsersFiles}
  /\ channels' \in {get_channel_names(inDir, inParent) :
                      inDir \in ChannelsFiles, inParent \in ChannelsFiles}
  /\ nResolved' = nResolved + 1
  /\ fileIdx' = 1
  /\ fileLog' = <<>>
  /\ lastFile' = NoFile
  /\ pc' = "file"
  /\ UNCHANGED <<paths, pathIdx, nMsgs, msgIdx, message, attIdx, nValid,
                 nSent, lastSent, lastAtt, warnings, sleeps, render>>

\* lines 189-192: open or json.load raises; no array is loaded
ParseFails ==
  /\ pc = "file"
  /\ fileIdx <= Len(json_file_paths)
  /\ LoadArray(0)
  /\ FileFails("parse")
  /\ UNCHANGED <<paths, pathIdx, json_file_paths, users, channels, attIdx,
                 lastFile, nResolved, render>>

\* lines 189-192: the export file is loaded
ParseFile ==
  /\ pc = "file"
  /\ fileIdx <= Len(json_file_paths)
  /\ \E n \in 0..MaxMsgs : LoadArray(n)
  /\ pc' = "msg"
  /\ UNCHANGED <<paths, pathIdx, json_file_paths, users, channels, fileIdx,
                 attIdx, lastFile, fileLog, lastAtt, nResolved, render>>

\* lines 193, 214-216: a record without ts, text or author
SkipInvalid ==
  /\ pc = "msg"
  /\ msgIdx <= nMsgs
  /\ ~Valid(message)
  /\ warnings' = warnings + 1
  /\ NextRecord(msgIdx + 1, nMsgs)
  /\ UNCHANGED <<paths, pc, pathIdx, json_file_paths, users, channels,
                 fileIdx, nMsgs, attIdx, nValid, nSent, lastFile, lastSent,
                 fileLog, lastAtt, sleeps, nResolved, render>>

\* lines 194-208, 217-218: handling the record raises before anything is
\* sent, in building msg (the author lookup, float, fill_references) or in
\* ctx.send, which may raise whatever msg is
RecordRaises ==
  /\ pc = "msg"
  /\ msgIdx <= nMsgs
  /\ Valid(message)
  /\ nValid' = nValid + 1
  /\ FileFails(IF Username(message, users).exc THEN "author" ELSE "other")
  /\ UNCHANGED <<paths, pathIdx, json_file_paths, users, channels, nMsgs,
                 msgIdx, message, attIdx, nSent, lastFile, lastSent, warnings,
                 sleeps, nResolved, render>>

\* lines 194-209: msg is built and sent
SendText ==
  /\ pc = "msg"
  /\ msgIdx <= nMsgs
  /\ Valid(message)
  /\ ~Compose(message, users, channels).exc
  /\ nValid' = nValid + 1
  /\ nSent' = nSent + 1
  /\ lastFile' = json_file
  /\ lastSent' = [msg |-> msgIdx, ts |-> ParseSeconds(message.ts).val,
                   before |-> lastSent.ts]
  /\ attIdx' = 1
  /\ lastAtt' = NoAtt
  /\ pc' = "att"
  /\ UNCHANGED <<paths, pathIdx, json_file_paths, users, channels, fileIdx,
                 nMsgs, msgIdx, message, fileLog, warnings, sleeps, nResolved,
                 render>>

\* lines 210-211, 138: uploadd_file raises outside its try
AttachmentRaises ==
  /\ pc = "att"
  /\ attIdx <= Len(MessageFiles(message))
  /\ \E net \in Network : uploadd_file(MessageFiles(message)[attIdx], net).exc
  /\ FileFails("other")
  /\ UNCHANGED <<paths, pathIdx, json_file_paths, users, channels, nMsgs,
                 msgIdx, message, attIdx, nValid, nSent, lastFile, lastSent,
                 warnings, sleeps, nResolved, render>>

\* a retry loop around the fetch: a failed attachment is tried again
DeliverAttachmentRetrying ==
  /\ pc = "att"
  /\ attIdx <= Len(MessageFiles(message))
  /\ \E net \in Network :
       LET r == uploadd_file(MessageFiles(message)[attIdx], net)
       IN  /\ ~r.exc
           /\ lastAtt' = [status |-> IF r.fetched THEN net.fetch ELSE "none",
                          delivered |-> r.delivered, logged |-> r.logged]
           /\ attIdx' = IF r.logged THEN attIdx ELSE attIdx + 1
  /\ UNCHANGED <<paths, pc, pathIdx, json_file_paths, users, channels,
                 fileIdx, nMsgs, msgIdx, message, nValid, nSent, lastFile,
                 lastSent, fileLog, warnings, sleeps, nResolved, render>>

\* lines 210-211, 137-150: one attachment is handled
DeliverAttachment ==
  /\ pc = "att"
  /\ attIdx <= Len(MessageFiles(message))
  /\ \E net \in Network :
       LET r == uploadd_file(MessageFiles(message)[attIdx], net)
       IN  /\ ~r.exc
           /\ lastAtt' = [status |-> IF r.fetched THEN net.fetch ELSE "none",
                          delivered |-> r.delivered, logged |-> r.logged]
  /\ attIdx' = attIdx + 1
  /\ UNCHANGED <<paths, pc, pathIdx, json_file_paths, users, channels,
                 fileIdx, nMsgs, msgIdx, message, nValid, nSent, lastFile,
                 lastSent, fileLog, warnings, sleeps, nResolved, render>>

\* the delay only after a message that has attachments
ThrottleAfterFilesOnly ==
  /\ pc = "att"
  /\ attIdx > Len(MessageFiles(message))
  /\ sleeps' = IF MessageFiles(message) = <<>> THEN sleeps
                ELSE sleeps + THROTTLE_TIME_MS
  /\ NextRecord(msgIdx + 1, nMsgs)
  /\ attIdx' = 1
  /\ lastAtt' = NoAtt
  /\ pc' = "msg"
  /\ UNCHANGED <<paths, pathIdx, json_file_paths, users, channels, fileIdx,
                 nMsgs, nValid, nSent, lastFile, lastSent, fileLog, warnings,
                 nResolved, render>>

\* lines 212-213: the message is logged as imported, then the delay
Throttle ==
  /\ pc = "att"
  /\ attIdx > Len(MessageFiles(message))
  /\ sleeps' = sleeps + THROTTLE_TIME_MS
  /\ NextRecord(msgIdx + 1, nMsgs)
  /\ attIdx' = 1
  /\ lastAtt' = NoAtt
  /\ pc' = "msg"
  /\ UNCHANGED <<paths, pathIdx, json_file_paths, users, channels, fileIdx,
                 nMsgs, nValid, nSent, lastFile, lastSent, fileLog, warnings,
                 nResolved, render>>

\* line 192: the records of the file are exhausted
CloseFile ==
  /\ pc = "msg"
  /\ msgIdx > nMsgs
  /\ fileLog' = Append(fileLog, "none")
  /\ fileIdx' = fileIdx + 1
  /\ pc' = "file"
  /\ UNCHANGED <<paths, pathIdx, json_file_paths, users, channels, nMsgs,
                 msgIdx, message, attIdx, nValid, nSent, lastFile, lastSent,
                 lastAtt, warnings, sleeps, nResolved, render>>

\* line 219: the files of the path are exhausted; the loop variables are dead
EndFiles ==
  /\ pc = "file"
  /\ fileIdx > Len(json_file_paths)
  /\ pathIdx' = pathIdx + 1
  /\ LoadArray(0)
  /\ attIdx' = 1
  /\ lastFile' = NoFile
  /\ pc' = "path"
  /\ UNCHANGED <<paths, json_file_paths, users, channels, fileIdx, fileLog,
                 lastAtt, nResolved, render>>

\* line 165: the paths are exhausted, import_here returns
Finish ==
  /\ pc = "path"
  /\ pathIdx > Len(paths)
  /\ pc' = "done"
  /\ UNCHANGED <<paths, pathIdx, json_file_paths, users, channels, fileIdx,
                 nMsgs, msgIdx, message, attIdx, nValid, nSent, lastFile,
                 lastSent, fileLog, lastAtt, warnings, sleeps, nResolved,
                 render>>

Next ==
  \/ LocateEmpty
  \/ LocateFiles
  \/ ParseFails
  \/ ParseFile
  \/ SkipInvalid
  \/ RecordRaises
  \/ SendText
  \/ AttachmentRaises
  \/ DeliverAttachment
  \/ Throttle
  \/ CloseFile
  \/ EndFiles
  \/ Finish

Spec == Init /\ [][Next]_vars

\* the single thread of control keeps running: every await returns or raises
FairSpec == Spec /\ WF_vars(Next)

(* ------------------------- fill_references alone ----------------------- *)

\* arguments of a fill_references call: bodies short and around the size
\* limit, with and without reference tokens; URL lists short and long
FillBodies ==
  {Rep("a", n) : n \in {0, 1, 100, 1939, 1940, 1941, 3000}}
    \cup {TextMention \o Rep("a", n) : n \in {0, 1935}}
    \cup {TextChannel \o TextMention}
FillUsers == {None, Some(<<>>), Some(<<<<U1, NameAl>>>>)}
FillChannels == {None, Some(<<>>), Some(<<<<C1, NameDev>>>>)}
FillFiles ==
  {<<>>, <<None>>, <<Some(Url)>>, <<Some(Url), Some(Url)>>}
    \cup {<<Some(Rep("u", n))>> : n \in {58, 1938, 1939, 1940, 1950}}

FillArguments ==
  [message : FillBodies, users : FillUsers, channels : FillChannels,
   files : FillFiles]

InitFill ==
  /\ paths = <<>>
  /\ pc = "path"
  /\ pathIdx = 1
  /\ json_file_paths = <<>>
  /\ users = None
  /\ channels = None
  /\ fileIdx = 1
  /\ nMsgs = 0
  /\ msgIdx = 1
  /\ message = NoMessage
  /\ attIdx = 1
  /\ nValid = 0
  /\ nSent = 0
  /\ lastFile = NoFile
  /\ lastSent = NoSend
  /\ fileLog = <<>>
  /\ lastAtt = NoAtt
  /\ warnings = 0
  /\ sleeps = 0
  /\ nResolved = 0
  /\ \E a \in FillArguments : render = [called |-> FALSE, args |-> a]

\* the call under test: render keeps the arguments and what is returned
CallFill ==
  /\ ~render.called
  /\ "args" \in DOMAIN render
  /\ render' = [called |-> TRUE, args |-> render.args,
                result |-> fill_references(render.args.message,
                                           render.args.users,
                                           render.args.channels,
                                           render.args.files)]
  /\ UNCHANGED <<paths, pc, pathIdx, json_file_paths, users, channels,
                 fileIdx, nMsgs, msgIdx, message, attIdx, nValid, nSent,
                 lastFile, lastSent, fileLog, lastAtt, warnings, sleeps,
                 nResolved>>

NextFill == CallFill

SpecFill == InitFill /\ [][NextFill]_vars

(* ------------------------- name resolution alone ---------------------- *)

\* import_here before its first step, whatever the path arguments
Quiet ==
  /\ paths = <<>>
  /\ pc = "path"
  /\ pathIdx = 1
  /\ json_file_paths = <<>>
  /\ users = None
  /\ channels = None
  /\ fileIdx = 1
  /\ nMsgs = 0
  /\ msgIdx = 1
  /\ message = NoMessage
  /\ attIdx = 1
  /\ nValid = 0
  /\ nSent = 0
  /\ lastFile = NoFile
  /\ lastSent = NoSend
  /\ fileLog = <<>>
  /\ lastAtt = NoAtt
  /\ warnings = 0
  /\ sleeps = 0
  /\ nResolved = 0

Idle ==
  UNCHANGED <<paths, pc, pathIdx, json_file_paths, users, channels, fileIdx,
              nMsgs, msgIdx, message, attIdx, nValid, nSent, lastFile,
              lastSent, fileLog, lastAtt, warnings, sleeps, nResolved>>

\* profiles: every pairing of an empty or non-empty display_name with an
\* empty or non-empty real_name
ProfileNames == {<<>>, NameAl, NameBo, NameDev, U1}
Profiles == [display_name : ProfileNames, real_name : ProfileNames]

InitNames ==
  /\ Quiet
  /\ \E p \in Profiles, id \in {U1, U9} :
       render = [called |-> FALSE, args |-> [profile |-> p, id |-> id]]

\* users.json holds the profile: the name get_display_names stores for it
ResolveFromTable ==
  /\ ~render.called
  /\ render' =
       [called |-> TRUE, args |-> render.args, via |-> "table",
        result |-> get_display_names(
                     Array(<<[id |-> render.args.id,
                              profile |-> render.args.profile]>>),
                     Absent)]
  /\ Idle

\* a message holds the profile inline: the username import_here takes
ResolveInline ==
  /\ ~render.called
  /\ render' =
       [called |-> TRUE, args |-> render.args, via |-> "inline",
        result |-> Username([ts |-> TsNewYear, text |-> TextMention,
                             user_profile |-> render.args.profile], None)]
  /\ Idle

NextNames ==
  \/ ResolveFromTable
  \/ ResolveInline

SpecNames == InitNames /\ [][NextNames]_vars

(* ------------------------- substitution alone ------------------------- *)

\* names a workspace can hold: plain ones, one equal to an identifier, and
\* ones that read like a reference token
TokenU1 == <<"<", "@", "U", "1", ">">>
TokenU9 == <<"<", "@", "U", "9", ">">>
TokenC1 == <<"<", "#", "C", "1", ">">>
SubstNames == {NameAl, U9, TokenU9, TokenC1}
SubstUsers ==
  {<<>>}
    \cup {<<<<id, n>>>> : id \in {U1, U9}, n \in SubstNames}
    \cup {<<<<U1, n>>, <<U9, m>>>> : n \in SubstNames, m \in SubstNames}
    \cup {<<<<U9, n>>, <<U1, m>>>> : n \in SubstNames, m \in SubstNames}
SubstChannels == {<<>>, <<<<C1, NameDev>>>>}
SubstTexts ==
  {TextMention, TextChannel, TokenU9, TokenU1 \o TokenU9,
   <<"@">> \o NameAl, TokenC1 \o TokenU1}

InitSubst ==
  /\ Quiet
  /\ \E m \in SubstTexts, u \in SubstUsers, c \in SubstChannels :
       render = [called |-> FALSE,
                 args |-> [message |-> m, users |-> u, channels |-> c]]

\* the substitution step applied to the text, and again to what it gave
SubstituteTwice ==
  /\ ~render.called
  /\ \E once \in {Substitute(render.args.message, render.args.users,
                               render.args.channels)} :
       render' = [called |-> TRUE, args |-> render.args, once |-> once,
                  twice |-> Substitute(once, render.args.users,
                                       render.args.channels)]
  /\ Idle

NextSubst == SubstituteTwice

SpecSubst == InitSubst /\ [][NextSubst]_vars

(* ------------------------- lookup tables alone ------------------------ *)

\* users.json and channels.json as found next to the export files and in
\* the parent directory: absent, not JSON, or arrays of up to two entries,
\* well-formed or lacking a field
UserNoProfile == [id |-> U1]
UserNoDisplay == [id |-> U9, profile |-> [real_name |-> NameBo]]
UserNoId == [profile |-> [display_name |-> NameAl, real_name |-> NameBo]]
UserEntries == {UserAl, UserBo, UserBad, UserNoProfile, UserNoDisplay, UserNoId}
ChannelEntries == {ChannelDev, ChannelBad, [id |-> C1]}
TableFiles(entries) ==
  {Absent, Garbage}
    \cup {Array(<<>>)}
    \cup {Array(<<e>>) : e \in entries}
    \cup {Array(<<e, f>>) : e \in entries, f \in entries}

InitTables ==
  /\ Quiet
  /\ \/ \E d \in TableFiles(UserEntries), p \in {Absent, Array(<<UserAl>>)} :
          render = [called |-> FALSE,
                    args |-> [table |-> "users", inDir |-> d, inParent |-> p]]
     \/ \E d \in TableFiles(ChannelEntries),
           p \in {Absent, Array(<<ChannelDev>>)} :
          render = [called |-> FALSE,
                    args |-> [table |-> "channels", inDir |-> d,
                              inParent |-> p]]

ResolveUsers ==
  /\ ~render.called
  /\ render.args.table = "users"
  /\ render' = [called |-> TRUE, args |-> render.args,
                table |-> get_display_names(render.args.inDir,
                                            render.args.inParent)]
  /\ Idle

ResolveChannels ==
  /\ ~render.called
  /\ render.args.table = "channels"
  /\ render' = [called |-> TRUE, args |-> render.args,
                table |-> get_channel_names(render.args.inDir,
                                            render.args.inParent)]
  /\ Idle

NextTables ==
  \/ ResolveUsers
  \/ ResolveChannels

SpecTables == InitTables /\ [][NextTables]_vars

(* ------------------------- composing msg alone ----------------------- *)

\* records with an inline profile: author names of 2 to 80 characters,
\* bodies short and around the size limit, no or one short attachment URL
ComposeNames == {Rep("n", k) : k \in {2, 27, 28, 30, 80}}
ComposeBodies == {Rep("a", k) : k \in {1, 100, 1907, 1940, 3000}}
ComposeRecords ==
  {[ts |-> t, text |-> b, user_profile |-> [display_name |-> n, real_name |-> <<>>]] :
     t \in {TsNewYear, TsEarly}, b \in ComposeBodies, n \in ComposeNames}
    \cup
  {[ts |-> t, text |-> b, user_profile |-> [display_name |-> n, real_name |-> <<>>],
    files |-> <<FileDoc>>] :
     t \in {TsNewYear, TsEarly}, b \in ComposeBodies, n \in ComposeNames}

InitCompose ==
  /\ Quiet
  /\ \E m \in ComposeRecords : render = [called |-> FALSE, args |-> m]

\* lines 194-207 for the record, both lookup tables being empty mappings
ComposeRecord ==
  /\ ~render.called
  /\ render' = [called |-> TRUE, args |-> render.args,
                msg |-> Compose(render.args, Some(<<>>), Some(<<>>))]
  /\ Idle

NextCompose == ComposeRecord

SpecCompose == InitCompose /\ [][NextCompose]_vars

(* ------------------------------ claims --------------------------------- *)

\* the lookup table, an unavailable one taken as the empty mapping
OrEmpty(table) == IF table.none THEN Some(<<>>) ELSE table

\* C1: when the user table or the channel table is unavailable, the import
\* goes on as with an empty mapping: a valid record whose text can be built
\* with the empty mapping in place of the unavailable table gets to ctx.send.
C1_UnavailableTablesStillImport ==
  (/\ pc = "msg"
   /\ msgIdx <= nMsgs
   /\ Valid(message)
   /\ (users.none \/ channels.none)
   /\ ~Compose(message, OrEmpty(users), OrEmpty(channels)).exc)
    => ENABLED SendText

\* C2: the texts of one export file are sent in the order of its array,
\* whatever their timestamps, and every text of a file is sent after the
\* texts of the files of the same path argument whose paths sort before it:
\* the record the loop is at, and the file it is at, come after the source
\* of the latest text sent.
C2_SendsPreserveInputOrder ==
  /\ pc = "att" => lastFile = json_file /\ lastSent.msg = msgIdx
  /\ (pc = "msg" /\ lastFile # NoFile) =>
       IF nSent = 0 THEN StrLess(lastFile, json_file)
       ELSE lastFile = json_file /\ lastSent.msg < msgIdx
  /\ (pc = "file" /\ fileIdx <= Len(json_file_paths) /\ lastFile # NoFile) =>
       StrLess(lastFile, json_file)

C2_Witness ==
  /\ pc = "att"
  /\ fileIdx = 2
  /\ nSent = 2
  /\ lastSent.before > lastSent.ts

\* C3: a failure in one export file ends that file only: the loop stands at
\* the next file with one entry logged per file visited, and a file that is
\* read to its end has exactly its valid records sent, whatever happened to
\* the files before it.
C3_FileFailureIsConfined ==
  /\ pc \in {"file", "msg", "att"} => Len(fileLog) = fileIdx - 1
  /\ (pc = "msg" /\ msgIdx > nMsgs) => nSent = nValid
  /\ (pc = "file" /\ fileLog # <<>> /\ fileLog[Len(fileLog)] = "none") =>
       nSent = nValid

C3_Witness ==
  /\ pc = "msg"
  /\ msgIdx > nMsgs
  /\ fileLog = <<"parse">>
  /\ nMsgs = 2
  /\ nSent = 2

\* the record lacks the timestamp, the text, or every author reference
Lacking(m) ==
  \/ "ts" \notin DOMAIN m
  \/ "text" \notin DOMAIN m
  \/ ("user_profile" \notin DOMAIN m /\ "user" \notin DOMAIN m)

\* C4: a record lacking the timestamp, the text or every author reference
\* is stepped over: one warning, no send, no attachment delivery, no delay,
\* and the loop stands at the next record of the same file.
C4_InvalidRecordIsSkipped ==
  [][(pc = "msg" /\ msgIdx <= nMsgs /\ Lacking(message)) =>
       /\ pc' = "msg"
       /\ msgIdx' = msgIdx + 1
       /\ warnings' = warnings + 1
       /\ nSent' = nSent
       /\ lastSent' = lastSent
       /\ lastFile' = lastFile
       /\ lastAtt' = lastAtt
       /\ sleeps' = sleeps
       /\ fileLog' = fileLog
       /\ fileIdx' = fileIdx]_vars

C4_Witness ==
  /\ pc = "att"
  /\ warnings = 1
  /\ msgIdx = 2
  /\ nSent = 1

\* C5: the text fill_references returns is no longer than 1940 plus the
\* newline-prefixed attachment block, and no longer than 2000 characters.
C5_LengthWithinBudget ==
  (render.called /\ ~render.result.exc) =>
    /\ Len(render.result.val)
         <= MAX_MESSAGE_SIZE + Len(FilesMsg(<<>>, render.args.files))
    /\ Len(render.result.val) <= MAX_MESSAGE_SIZE + 60

\* the record names its author by a bare identifier the user mapping lacks
BareUnknownAuthor(m, u) ==
  /\ ~Lacking(m)
  /\ "user_profile" \notin DOMAIN m
  /\ (u.none \/ ~HasKey(u.items, m.user))

\* C6: a record whose bare author identifier has no entry in the user
\* mapping is not sent and ends its file: what was sent stays sent, nothing
\* more of the file is sent, and the loop stands at the next export file.
C6_UnknownAuthorEndsFile ==
  [][(pc = "msg" /\ msgIdx <= nMsgs /\ BareUnknownAuthor(message, users)) =>
       /\ nSent' = nSent
       /\ lastSent' = lastSent
       /\ lastFile' = lastFile
       /\ pc' = "file"
       /\ fileIdx' = fileIdx + 1
       /\ json_file_paths' = json_file_paths
       /\ fileLog' = Append(fileLog, "author")]_vars

C6_Witness ==
  /\ pc = "file"
  /\ fileLog = <<"author">>
  /\ fileIdx <= Len(json_file_paths)
  /\ nSent > 0
  /\ msgIdx < nMsgs

C8_RunCompletes == <>(pc = "done" /\ pathIdx = Len(paths) + 1)

C8_Witness ==
  /\ pc = "done"
  /\ Len(paths) = 2
  /\ \E i \in 1..Len(fileLog) : fileLog[i] # "none"

\* the Export Locator finds no matching file at the path
NoMatch(path) ==
  IF IsDir(path) THEN \A f \in DirEntries(path) : ~EndsWith(f, DotJson)
  ELSE ~EndsWith(path, DotJson)

\* C9: the path arguments are gone through one by one in the order given;
\* a path without a matching file changes nothing but the position in the
\* path arguments, and files are only processed for a path that has one.
C9_EmptyPathIsSkipped ==
  [][/\ pathIdx' \in {pathIdx, pathIdx + 1}
     /\ pc' \in {"file", "msg", "att"} => ~NoMatch(paths'[pathIdx'])
     /\ (pc = "path" /\ pathIdx <= Len(paths) /\ NoMatch(paths[pathIdx])) =>
          /\ pathIdx' = pathIdx + 1
          /\ pc' = "path"
          /\ UNCHANGED <<paths, json_file_paths, users, channels, fileIdx,
                         nMsgs, msgIdx, message, attIdx, nValid, nSent,
                         lastFile, lastSent, fileLog, lastAtt, warnings,
                         sleeps, nResolved, render>>]_vars

C9_Witness ==
  /\ pathIdx = 2
  /\ NoMatch(paths[1])
  /\ nResolved = 1
  /\ pc = "att"

\* C10: every message that was sent and whose attachments were all handled
\* is followed by one delay of THROTTLE_TIME_SECONDS before the loop takes
\* the next record.
C10_ThrottleAfterEachMessage ==
  /\ pc = "msg" => sleeps = THROTTLE_TIME_MS * nSent
  /\ pc = "att" => sleeps = THROTTLE_TIME_MS * (nSent - 1)

C10_Witness ==
  /\ pc = "msg"
  /\ msgIdx = 2
  /\ msgIdx <= nMsgs
  /\ sleeps = THROTTLE_TIME_MS

\* the attachment the loop is at has a mimetype that contains 'image'
AtImage ==
  /\ pc = "att"
  /\ attIdx <= Len(MessageFiles(message))
  /\ "mimetype" \in DOMAIN MessageFiles(message)[attIdx]
  /\ Contains(MessageFiles(message)[attIdx].mimetype,
              <<"i", "m", "a", "g", "e">>)

\* C11: for an attachment whose mimetype marks it as an image there is no
\* fetch, no upload and no placeholder; the text that was sent for the
\* message holds its URL, and the loop goes to the next attachment.
C11_ImageIsNeverFetched ==
  [][AtImage =>
       /\ Contains(Compose(message, users, channels).val,
                   MessageFiles(message)[attIdx].url_private)
       /\ lastAtt'.status = "none"
       /\ lastAtt'.delivered = "nothing"
       /\ ~lastAtt'.logged
       /\ pc' = "att"
       /\ attIdx' = attIdx + 1
       /\ nSent' = nSent
       /\ fileLog' = fileLog]_vars

C11_Witness ==
  /\ pc = "att"
  /\ attIdx = 3
  /\ MessageFiles(message)[2] = FileImage
  /\ lastAtt.status = "none"
  /\ nSent = 1

\* C12: the name resolved from a profile, in users.json or inline in a
\* message, is display_name when that is non-empty and real_name when it
\* is the empty string.
C12_DisplayNameFallback ==
  (render.called /\ "via" \in DOMAIN render) =>
    LET profile == render.args.profile
        expected == IF profile.display_name # <<>> THEN profile.display_name
                    ELSE profile.real_name
    IN  IF render.via = "table"
        THEN /\ ~render.result.none
             /\ Lookup(render.result.items, render.args.id) = expected
        ELSE /\ ~render.result.exc
             /\ render.result.val = expected

C12_Witness ==
  /\ render.called
  /\ "via" \in DOMAIN render
  /\ render.via = "table"
  /\ render.args.profile.display_name = <<>>
  /\ render.args.profile.real_name = NameBo
  /\ Lookup(render.result.items, render.args.id) = NameBo

\* the text holds no raw token of an identifier the mappings know
NoRawToken(text, u, c) ==
  /\ \A i \in 1..Len(u) : ~Contains(text, <<"<", "@">> \o u[i][1] \o <<">">>)
  /\ \A i \in 1..Len(c) : ~Contains(text, <<"<", "#">> \o c[i][1] \o <<">">>)

\* C13: substituted text without a remaining raw identifier token is left
\* as it is by a second run of the substitution with the same mappings.
C13_SubstitutionIdempotent ==
  (/\ render.called
   /\ "once" \in DOMAIN render
   /\ NoRawToken(render.once, render.args.users, render.args.channels))
    => render.twice = render.once

C13_Witness ==
  /\ render.called
  /\ "once" \in DOMAIN render
  /\ render.once # render.args.message
  /\ Len(render.args.users) = 2
  /\ render.args.channels # <<>>
  /\ NoRawToken(render.once, render.args.users, render.args.channels)
  /\ render.twice = render.once

\* C14: when the attachment block alone is longer than 1940 characters the
\* body is emptied: fill_references returns the attachment block only.
C14_NegativeLimitEmptiesBody ==
  (/\ render.called
   /\ "result" \in DOMAIN render
   /\ "files" \in DOMAIN render.args
   /\ ~render.result.exc
   /\ Len(FilesMsg(<<>>, render.args.files)) > MAX_MESSAGE_SIZE)
    => render.result.val = StripNewlines(FilesMsg(<<>>, render.args.files))

\* C15: a text is sent from the record loop only, and the attachment loop
\* then starts at the first attachment of that message; attachments are
\* handled one at a time in list order for the message whose text was sent
\* last; the attachment loop is only left after the last attachment, for
\* the next record.
C15_DeliveryIsSequential ==
  [][/\ nSent' = nSent + 1 =>
          /\ pc = "msg"
          /\ pc' = "att"
          /\ attIdx' = 1
          /\ lastSent'.msg = msgIdx
          /\ message' = message
     /\ (attIdx' # attIdx /\ attIdx' # 1) =>
          /\ pc = "att"
          /\ pc' = "att"
          /\ attIdx <= Len(MessageFiles(message))
          /\ attIdx' = attIdx + 1
          /\ lastSent.msg = msgIdx
          /\ message' = message
          /\ nSent' = nSent
     /\ (pc = "att" /\ pc' # "att") =>
          /\ attIdx > Len(MessageFiles(message))
          /\ pc' = "msg"
          /\ msgIdx' = msgIdx + 1]_vars

\* the lookup file that is read holds no JSON array, or an entry of it
\* lacks a field the table is built from
Malformed(table, file) ==
  \/ file = Garbage
  \/ /\ file # Absent
     /\ \E i \in 1..Len(file.entries) :
          LET e == file.entries[i]
          IN  IF table = "users"
              THEN \/ "id" \notin DOMAIN e
                   \/ "profile" \notin DOMAIN e
                   \/ "display_name" \notin DOMAIN e.profile
              ELSE "id" \notin DOMAIN e \/ "name" \notin DOMAIN e

\* C16: a lookup file that fails to load makes the whole mapping
\* unavailable: no entry read before the failure resolves an author or
\* substitutes a reference.
C16_TableLoadIsAllOrNothing ==
  (/\ render.called
   /\ "table" \in DOMAIN render
   /\ Malformed(render.args.table,
                FirstFound(render.args.inDir, render.args.inParent)))
    => /\ render.table.none
       /\ render.args.table = "users" =>
            /\ Username(MsgUser, render.table).exc
            /\ fill_references(TextMention, render.table, Some(<<>>), <<>>).exc
       /\ render.args.table = "channels" =>
            fill_references(TextChannel, Some(<<>>), render.table, <<>>).exc

C16_Witness ==
  /\ render.called
  /\ "table" \in DOMAIN render
  /\ render.args.table = "users"
  /\ render.args.inDir = Array(<<UserAl, UserBad>>)
  /\ render.table.none

\* the text of the first record of the export file PathOne has just been sent
SentFirstOfOne == pc = "att" /\ lastFile = PathOne /\ lastSent.msg = 1

C18_ComposedWithinTransportLimit ==
  (render.called /\ "msg" \in DOMAIN render /\ ~render.msg.exc) =>
    Len(render.msg.val) <= MAX_MESSAGE_SIZE + 60

\* the first export file of the first path argument has been left with a
\* text sent that no delay followed
LeftWithoutDelay ==
  /\ pc = "file"
  /\ pathIdx = 1
  /\ fileIdx = 2
  /\ nSent > 0
  /\ sleeps < THROTTLE_TIME_MS * nSent

\* the first text of the second export file of the first path argument has
\* just been sent: nothing was slept since that file was opened
FirstSendOfNextFile ==
  /\ pc = "att"
  /\ pathIdx = 1
  /\ fileIdx = 2
  /\ nSent = 1
  /\ sleeps = 0

\* C19: between a text send and the next text send of the run there is a
\* throttle delay; here, a text of the first export file that no delay
\* followed is never followed by the first text of the second file.
C19_DelayBetweenSends == [](LeftWithoutDelay => [](~FirstSendOfNextFile))

\* the entries of a mapping in the opposite iteration order
Reversed(d) == [i \in 1..Len(d) |-> d[Len(d) + 1 - i]]

\* C20: the substituted text is the same whichever order the entries of the
\* user and channel mappings are iterated in: a name put in by one entry is
\* not rewritten by another.
C20_SubstitutionOrderIndependent ==
  (render.called /\ "once" \in DOMAIN render)
    => render.once = Substitute(render.args.message,
                                Reversed(render.args.users),
                                Reversed(render.args.channels))

====
